---- MODULE Spec2Model ----
(***************************************************************************)
(* Model of ServiceDogProblem.py: a dog moves through a graph of rooms,    *)
(* picks up every remaining item of the room it enters, and bfs_plan finds *)
(* a shortest sequence of moves that leaves no item remaining.             *)
(***************************************************************************)
EXTENDS Integers, Sequences, FiniteSets, TLC

VARIABLES
    GRAPH,            \* module global GRAPH: room -> list of neighbour rooms
    ITEM_START_POS,   \* module global ITEM_START_POS: item -> room
    pc,               \* position of the running program
    start,            \* argument of bfs_plan
    q,                \* bfs_plan: deque q
    prev,             \* bfs_plan: dict prev
    prev_action,      \* bfs_plan: dict prev_action
    result,           \* value returned by the last bfs_plan call
    firstResult,      \* value returned by the first bfs_plan call
    s,                \* play_interactive: current state s
    todo,             \* play_interactive: plan steps not executed yet
    found_now,        \* play_interactive: found_now of the last step
    choice,           \* play_interactive: choice, the last input read
    msg,              \* play_interactive: the last line printed about the session
    printed,          \* play_interactive: the "You found" lines printed so far
    arg,              \* engine calls: the State passed in
    ap1,              \* engine calls: auto_pickup(arg)
    ap2,              \* engine calls: auto_pickup(ap1[1])
    acts              \* engine calls: possible_actions(arg)

vars == <<GRAPH, ITEM_START_POS, pc, start, q, prev, prev_action,
          result, firstResult, s, todo, found_now, choice, msg, printed,
          arg, ap1, ap2, acts>>

worldVars == <<GRAPH, ITEM_START_POS>>
bfsVars == <<q, prev, prev_action>>
uiVars == <<s, todo, found_now, choice, msg, printed>>
engineVars == <<arg, ap1, ap2, acts>>

----------------------------------------------------------------------------
(* World definition *)

ROOM1 == "room1"
ROOM2 == "room2"
ROOM3 == "room3"
ROOM4 == "room4"
ROOM5 == "room5"
OUTSIDE1 == "outside1"
OUTSIDE2 == "outside2"

ITEM1 == "item1"
ITEM2 == "item2"

(* the shipped graph with one more door, from room2 to room4 *)
ShippedGRAPHWithDoor ==
    [r \in {ROOM1, ROOM2, ROOM3, ROOM4, ROOM5, OUTSIDE1, OUTSIDE2} |->
        CASE r = ROOM1 -> <<ROOM2, ROOM3>>
          [] r = ROOM2 -> <<ROOM1, ROOM3, ROOM4>>
          [] r = ROOM3 -> <<ROOM1, ROOM2, OUTSIDE1, OUTSIDE2, ROOM4>>
          [] r = ROOM4 -> <<ROOM3, OUTSIDE2, ROOM5>>
          [] r = ROOM5 -> <<ROOM4>>
          [] r = OUTSIDE1 -> <<ROOM3>>
          [] r = OUTSIDE2 -> <<ROOM3, ROOM4>>]

ShippedGRAPH ==
    [r \in {ROOM1, ROOM2, ROOM3, ROOM4, ROOM5, OUTSIDE1, OUTSIDE2} |->
        CASE r = ROOM1 -> <<ROOM2, ROOM3>>
          [] r = ROOM2 -> <<ROOM1, ROOM3>>
          [] r = ROOM3 -> <<ROOM1, ROOM2, OUTSIDE1, OUTSIDE2, ROOM4>>
          [] r = ROOM4 -> <<ROOM3, OUTSIDE2, ROOM5>>
          [] r = ROOM5 -> <<ROOM4>>
          [] r = OUTSIDE1 -> <<ROOM3>>
          [] r = OUTSIDE2 -> <<ROOM3, ROOM4>>]

ShippedITEM_START_POS ==
    [it \in {ITEM1, ITEM2} |-> IF it = ITEM1 THEN ROOM2 ELSE ROOM5]

(* Other worlds the same code runs on: every graph over three rooms whose  *)
(* neighbour lists hold at most MaxEdges entries in all (self-loops,       *)
(* one-way edges, repeated neighbours and rooms without neighbours         *)
(* included), with every placement of the two items.                       *)
MaxEdges == 3

SmallRooms == {ROOM1, ROOM2, ROOM3}

Degrees ==
    {d \in [SmallRooms -> 0..MaxEdges] : d[ROOM1] + d[ROOM2] + d[ROOM3] <= MaxEdges}

GraphsOfDegrees(d) ==
    {[r \in SmallRooms |-> IF r = ROOM1 THEN n1 ELSE IF r = ROOM2 THEN n2 ELSE n3] :
        n1 \in [1..d[ROOM1] -> SmallRooms],
        n2 \in [1..d[ROOM2] -> SmallRooms],
        n3 \in [1..d[ROOM3] -> SmallRooms]}

SmallGraphs == UNION {GraphsOfDegrees(d) : d \in Degrees}

Items == {ITEM1, ITEM2}

Rooms == DOMAIN GRAPH

----------------------------------------------------------------------------
(* State *)

State(dog_pos, remaining_items) ==
    [dog_pos |-> dog_pos, remaining_items |-> remaining_items]

AllStates == {State(r, rem) : r \in Rooms, rem \in SUBSET DOMAIN ITEM_START_POS}

None == [none |-> TRUE]

Range(f) == {f[i] : i \in DOMAIN f}

Reverse(sq) == [i \in 1..Len(sq) |-> sq[Len(sq) + 1 - i]]

Orders(S) == {p \in [1..Cardinality(S) -> S] : Range(p) = S}

(* The order in which a frozenset of items is iterated is not fixed by its *)
(* contents: the functions that iterate one take that order, ord (a list   *)
(* of all items), as an input, and their callers draw it.                  *)
ItemOrders == Orders(DOMAIN ITEM_START_POS)

(* "for it in remaining_items" *)
IterOrder(S, ord) == SelectSeq(ord, LAMBDA it : it \in S)

(* every item of the room, found before or not *)
items_in_roomFoundOrNot(room, remaining_items, ord) ==
    SelectSeq(ord, LAMBDA it : ITEM_START_POS[it] = room)

items_in_room(room, remaining_items, ord) ==
    SelectSeq(IterOrder(remaining_items, ord), LAMBDA it : ITEM_START_POS[it] = room)

(* only the first item found in the room is picked up *)
auto_pickupOne(st, ord) ==
    LET found == items_in_room(st.dog_pos, st.remaining_items, ord)
    IN  IF found = <<>>
        THEN <<st, <<>>>>
        ELSE <<[st EXCEPT !.remaining_items = @ \ {found[1]}], <<found[1]>>>>

auto_pickup(st, ord) ==
    LET found == items_in_room(st.dog_pos, st.remaining_items, ord)
    IN  IF found = <<>>
        THEN <<st, <<>>>>
        ELSE LET new_remaining == {x \in st.remaining_items : x \notin Range(found)}
             IN  <<[st EXCEPT !.remaining_items = new_remaining], found>>

(* the items of the start room are not picked up *)
initial_stateAllItems(start_pos, ord) == State(start_pos, DOMAIN ITEM_START_POS)

initial_state(start_pos, ord) ==
    auto_pickup(State(start_pos, DOMAIN ITEM_START_POS), ord)[1]

----------------------------------------------------------------------------
(* Actions (move only) *)

MoveLabel(from, to) == "move " \o from \o " -> " \o to

(* the dog may also stay where it is *)
possible_actionsOrStay(st, ord) ==
    [k \in 1..(Len(GRAPH[st.dog_pos]) + 1) |->
        LET nxt == IF k <= Len(GRAPH[st.dog_pos]) THEN GRAPH[st.dog_pos][k] ELSE st.dog_pos
        IN  <<MoveLabel(st.dog_pos, nxt), auto_pickup([st EXCEPT !.dog_pos = nxt], ord)[1]>>]

(* every move starts from initial_state's item set, not from the state's *)
possible_actionsAllItems(st, ord) ==
    [k \in 1..Len(GRAPH[st.dog_pos]) |->
        LET nxt == GRAPH[st.dog_pos][k]
        IN  <<MoveLabel(st.dog_pos, nxt), initial_state(nxt, ord)>>]

(* the last neighbour is replaced by a place that is no key of GRAPH *)
possible_actionsOffMap(st, ord) ==
    [k \in 1..Len(GRAPH[st.dog_pos]) |->
        LET nxt == IF k = Len(GRAPH[st.dog_pos]) THEN "garden" ELSE GRAPH[st.dog_pos][k]
        IN  <<MoveLabel(st.dog_pos, nxt), auto_pickup([st EXCEPT !.dog_pos = nxt], ord)[1]>>]

(* the neighbours kept in a set: iterated in an order that is not fixed  *)
(* by the graph (here: as listed, or backwards, with the set order)      *)
possible_actionsOfSet(st, ord) ==
    LET listed == GRAPH[st.dog_pos]
        nbrs == IF ord[1] = ITEM1 THEN listed ELSE Reverse(listed)
    IN  [k \in 1..Len(nbrs) |->
            <<MoveLabel(st.dog_pos, nbrs[k]),
              auto_pickup([st EXCEPT !.dog_pos = nbrs[k]], ord)[1]>>]

possible_actions(st, ord) ==
    [k \in 1..Len(GRAPH[st.dog_pos]) |->
        LET nxt == GRAPH[st.dog_pos][k]
            moved == auto_pickup([st EXCEPT !.dog_pos = nxt], ord)[1]
        IN  <<MoveLabel(st.dog_pos, nxt), moved>>]

(* Goal *)
is_goal(st) == Cardinality(st.remaining_items) = 0

----------------------------------------------------------------------------
(* BFS planner *)

Some(plan) == [plan |-> plan]

(* a state counts as recorded when a state in the same room is *)
RecordedByRoom(st, prevMap) == \E x \in DOMAIN prevMap : x.dog_pos = st.dog_pos

(* line 96: nxt in prev *)
Recorded(st, prevMap) == st \in DOMAIN prevMap

(* q.appendleft(nxt) in place of q.append(nxt) *)
EnqueueLeft(queue, st) == <<st>> \o queue

(* line 99: q.append(nxt) *)
Enqueue(queue, st) == Append(queue, st)

(* lines 95-99: the for loop over possible_actions(cur) *)
RECURSIVE ExpandLoop(_, _, _, _)
ExpandLoop(cur, actions, k, b) ==
    IF k > Len(actions) THEN b
    ELSE LET action == actions[k][1]
             nxt == actions[k][2]
         IN  IF ~Recorded(nxt, b.prev)
             THEN ExpandLoop(cur, actions, k + 1,
                     [prev |-> (nxt :> cur) @@ b.prev,
                      prev_action |-> (nxt :> action) @@ b.prev_action,
                      q |-> Enqueue(b.q, nxt)])
             ELSE ExpandLoop(cur, actions, k + 1, b)

(* lines 87-92: walk the prev links back from cur, then reverse *)
RECURSIVE WalkBack(_, _)
WalkBack(st, plan) ==
    IF prev[st] # None
    THEN WalkBack(prev[st], Append(plan, prev_action[st]))
    ELSE plan

(* plan.reverse() left out *)
ReconstructPlanUnreversed(cur) == WalkBack(cur, <<>>)

ReconstructPlan(cur) == Reverse(WalkBack(cur, <<>>))

(* q[0] in place of q.popleft(): the state stays in the queue *)
DequeuePeek(queue) == <<Head(queue), queue>>

(* q.pop() in place of q.popleft() *)
DequeueRight(queue) == <<queue[Len(queue)], SubSeq(queue, 1, Len(queue) - 1)>>

(* line 85: cur = q.popleft(), as <<cur, rest of q>> *)
Dequeue(queue) == <<Head(queue), Tail(queue)>>

(* lines 80-82 *)
BfsInit ==
    /\ pc \in {"call1", "call2"}
    /\ q' = <<start>>
    /\ prev' = (start :> None)
    /\ prev_action' = (start :> None)
    /\ pc' = IF pc = "call1" THEN "loop1" ELSE "loop2"
    /\ UNCHANGED <<worldVars, start, result, firstResult, uiVars, engineVars>>

(* lines 84-85, 95-99: one iteration of the while loop on a non-goal     *)
(* state; GRAPH[cur.dog_pos] of line 66 raises KeyError for a room that  *)
(* is no key of GRAPH                                                    *)
BfsExpand ==
    /\ pc \in {"loop1", "loop2"}
    /\ q # <<>>
    /\ ~is_goal(Dequeue(q)[1])
    /\ IF Dequeue(q)[1].dog_pos \notin DOMAIN GRAPH
       THEN /\ pc' = "KeyError"
            /\ q' = Dequeue(q)[2]
            /\ UNCHANGED <<prev, prev_action>>
       ELSE /\ \E ord \in ItemOrders :
                LET cur == Dequeue(q)[1]
                    b == ExpandLoop(cur, possible_actions(cur, ord), 1,
                            [prev |-> prev, prev_action |-> prev_action,
                             q |-> Dequeue(q)[2]])
                IN  /\ q' = b.q
                    /\ prev' = b.prev
                    /\ prev_action' = b.prev_action
            /\ pc' = pc
    /\ UNCHANGED <<worldVars, start, result, firstResult, uiVars, engineVars>>

BfsReturn(value) ==
    /\ result' = value
    /\ firstResult' = IF pc = "loop1" THEN value ELSE firstResult
    /\ pc' = IF pc = "loop1" THEN "returned1" ELSE "returned2"
    /\ UNCHANGED <<worldVars, start, bfsVars, uiVars, engineVars>>

(* lines 84-93: a goal state is dequeued *)
BfsReturnPlan ==
    /\ pc \in {"loop1", "loop2"}
    /\ q # <<>>
    /\ is_goal(Dequeue(q)[1])
    /\ BfsReturn(Some(ReconstructPlan(Dequeue(q)[1])))

(* "return []" in place of "return None" *)
BfsReturnEmptyPlan ==
    /\ pc \in {"loop1", "loop2"}
    /\ q = <<>>
    /\ BfsReturn(Some(<<>>))

(* lines 84, 101: the queue is empty *)
BfsReturnNone ==
    /\ pc \in {"loop1", "loop2"}
    /\ q = <<>>
    /\ BfsReturn(None)

(* bfs_plan is called again on the same state *)
SecondCall ==
    /\ pc = "returned1"
    /\ pc' = "call2"
    /\ UNCHANGED <<worldVars, start, bfsVars, result, firstResult, uiVars, engineVars>>

----------------------------------------------------------------------------
(* Text UI: the auto-solve branch of play_interactive *)

ItemRank(it) == IF it = ITEM1 THEN 1 ELSE 2

(* sorted(S) for a set of item names *)
RECURSIVE sorted(_)
sorted(S) ==
    IF S = {} THEN <<>>
    ELSE LET least == CHOOSE x \in S : \A y \in S : ItemRank(x) <= ItemRank(y)
         IN  <<least>> \o sorted(S \ {least})

(* the two sets of the difference swapped *)
found_betweenSwapped(old, new) == sorted(new.remaining_items \ old.remaining_items)

(* lines 154, 177: sorted(old.remaining_items - new.remaining_items) *)
found_between(old, new) == sorted(old.remaining_items \ new.remaining_items)

(* lines 158, 180: the line printed for a found item, as its two parts *)
FoundLine(it, room) == [item |-> it, room |-> room]

(* only the first of the found items is announced *)
FoundLinesFirst(found, room) ==
    [i \in 1..(IF found = <<>> THEN 0 ELSE 1) |-> FoundLine(found[i], room)]

(* lines 156-158, 178-180: the lines printed for the found items, in order *)
FoundLines(found, room) == [i \in 1..Len(found) |-> FoundLine(found[i], room)]

(* lines 137-143: plan = bfs_plan(s) returned, and with it the locals q, *)
(* prev and prev_action of the call are gone                            *)
AutoSolve ==
    /\ pc = "returned1"
    /\ IF result = None
       THEN /\ pc' = "prompt"
            /\ msg' = "No plan found."
            /\ todo' = <<>>
       ELSE /\ pc' = "exec"
            /\ msg' = "Auto plan:"
            /\ todo' = result.plan
    /\ q' = <<>>
    /\ prev' = <<>>
    /\ prev_action' = <<>>
    /\ UNCHANGED <<worldVars, start, result, firstResult,
                   s, found_now, choice, printed, engineVars>>

(* lines 146-158: one iteration of "for step in plan" *)
ExecStep ==
    /\ pc = "exec"
    /\ todo # <<>>
    /\ \E ord \in ItemOrders :
       LET step == Head(todo)
           next_states == SelectSeq(possible_actions(s, ord), LAMBDA a : a[1] = step)
       IN  IF next_states = <<>>
           THEN /\ pc' = "RuntimeError"
                /\ UNCHANGED <<s, todo, found_now, printed>>
           ELSE LET ns == next_states[1][2]
                IN  /\ found_now' = found_between(s, ns)
                    /\ s' = ns
                    /\ printed' = printed \o FoundLines(found_now', ns.dog_pos)
                    /\ todo' = Tail(todo)
                    /\ pc' = pc
    /\ UNCHANGED <<worldVars, start, bfsVars, result, firstResult, choice, msg,
                   engineVars>>

(* lines 160-163: the plan is executed, back to the prompt *)
ExecEnd ==
    /\ pc = "exec"
    /\ todo = <<>>
    /\ pc' = "prompt"
    /\ msg' = "End state:"
    /\ UNCHANGED <<worldVars, start, bfsVars, result, firstResult,
                   s, todo, found_now, choice, printed, engineVars>>

----------------------------------------------------------------------------
(* Text UI: the loop of play_interactive *)

(* stands for the one-character string of U+00B2, SUPERSCRIPT TWO: a     *)
(* character for which str.isdigit() is True and int() raises ValueError *)
SUPERSCRIPT_TWO == "U+00B2"

DecimalDigits == <<"0", "1", "2", "3", "4", "5">>

(* line 129: the values of input("> ").strip().lower() that are typed *)
Choices == {"q", "a", "x", SUPERSCRIPT_TWO} \cup Range(DecimalDigits)

(* line 165: choice.isdigit() *)
isdigit(c) == c \in Range(DecimalDigits) \cup {SUPERSCRIPT_TWO}

(* line 169: int(choice) raises ValueError unless choice is a decimal number *)
IntParses(c) == c \in Range(DecimalDigits)

(* line 169: int(choice) *)
int(c) == (CHOOSE i \in 1..Len(DecimalDigits) : DecimalDigits[i] = c) - 1

(* lines 116-119: all items are found, the loop ends *)
SessionWin ==
    /\ pc = "prompt"
    /\ is_goal(s)
    /\ pc' = "ended"
    /\ msg' = "You win!"
    /\ UNCHANGED <<worldVars, start, bfsVars, result, firstResult,
                   s, todo, found_now, choice, printed, engineVars>>

(* lines 129-134 *)
ReadQuit ==
    /\ pc = "prompt"
    /\ ~is_goal(s)
    /\ choice' = "q"
    /\ msg' = "Quit."
    /\ pc' = "ended"
    /\ UNCHANGED <<worldVars, start, bfsVars, result, firstResult,
                   s, todo, found_now, printed, engineVars>>

(* lines 129, 136-137: bfs_plan(s) is called *)
ReadAuto ==
    /\ pc = "prompt"
    /\ ~is_goal(s)
    /\ choice' = "a"
    /\ start' = s
    /\ pc' = "call1"
    /\ UNCHANGED <<worldVars, bfsVars, result, firstResult,
                   s, todo, found_now, msg, printed, engineVars>>

(* lines 129, 165-167 *)
ReadNotANumber ==
    /\ pc = "prompt"
    /\ ~is_goal(s)
    /\ \E c \in Choices \ {"q", "a"} :
          /\ ~isdigit(c)
          /\ choice' = c
    /\ msg' = "Please enter a number, 'a', or 'q'."
    /\ UNCHANGED <<worldVars, pc, start, bfsVars, result, firstResult,
                   s, todo, found_now, printed, engineVars>>

(* lines 129, 165, 169: int(choice) raises ValueError, which nothing catches *)
ReadNoDecimal ==
    /\ pc = "prompt"
    /\ ~is_goal(s)
    /\ \E c \in Choices \ {"q", "a"} :
          /\ isdigit(c)
          /\ ~IntParses(c)
          /\ choice' = c
    /\ pc' = "ValueError"
    /\ UNCHANGED <<worldVars, start, bfsVars, result, firstResult,
                   s, todo, found_now, msg, printed, engineVars>>

(* lines 121, 129, 169-172 *)
ReadOutOfRange ==
    /\ pc = "prompt"
    /\ ~is_goal(s)
    /\ \E c \in Choices \ {"q", "a"} :
          /\ isdigit(c)
          /\ IntParses(c)
          /\ \E ord \in ItemOrders :
                LET idx == int(c) - 1
                IN  idx < 0 \/ idx >= Len(possible_actions(s, ord))
          /\ choice' = c
    /\ msg' = "Invalid choice."
    /\ UNCHANGED <<worldVars, pc, start, bfsVars, result, firstResult,
                   s, todo, found_now, printed, engineVars>>

(* the state is built again from the neighbour, not taken from acts *)
ReadMoveRebuilt ==
    /\ pc = "prompt"
    /\ ~is_goal(s)
    /\ \E c \in Choices \ {"q", "a"} :
          LET idx == int(c) - 1
          IN  /\ isdigit(c)
              /\ IntParses(c)
              /\ ~(idx < 0 \/ idx >= Len(GRAPH[s.dog_pos]))
              /\ choice' = c
              /\ s' = [s EXCEPT !.dog_pos = GRAPH[s.dog_pos][idx + 1]]
              /\ found_now' = found_between(s, s')
              /\ printed' = printed \o FoundLines(found_now', s'.dog_pos)
              /\ msg' = "Dog: " \o s'.dog_pos
    /\ UNCHANGED <<worldVars, pc, start, bfsVars, result, firstResult,
                   todo, engineVars>>

(* a move is offered and applied although all items are found *)
ReadMoveAtGoal ==
    /\ pc = "prompt"
    /\ \E c \in Choices \ {"q", "a"}, ord \in ItemOrders :
          LET acts_ == possible_actions(s, ord)
              idx == int(c) - 1
          IN  /\ isdigit(c)
              /\ IntParses(c)
              /\ ~(idx < 0 \/ idx >= Len(acts_))
              /\ choice' = c
              /\ s' = acts_[idx + 1][2]
              /\ found_now' = found_between(s, s')
              /\ printed' = printed \o FoundLines(found_now', s'.dog_pos)
              /\ msg' = "Dog: " \o s'.dog_pos
    /\ UNCHANGED <<worldVars, pc, start, bfsVars, result, firstResult,
                   todo, engineVars>>

(* lines 121, 129, 169-182: the chosen move; acts_ is acts of line 121,  *)
(* idx + 1 the place of acts[idx] in a list counted from 1, and msg the  *)
(* start of the line pretty_state(s) prints                              *)
ReadMove ==
    /\ pc = "prompt"
    /\ ~is_goal(s)
    /\ \E c \in Choices \ {"q", "a"}, ord \in ItemOrders :
          LET acts_ == possible_actions(s, ord)
              idx == int(c) - 1
          IN  /\ isdigit(c)
              /\ IntParses(c)
              /\ ~(idx < 0 \/ idx >= Len(acts_))
              /\ choice' = c
              /\ s' = acts_[idx + 1][2]
              /\ found_now' = found_between(s, s')
              /\ printed' = printed \o FoundLines(found_now', s'.dog_pos)
              /\ msg' = "Dog: " \o s'.dog_pos
    /\ UNCHANGED <<worldVars, pc, start, bfsVars, result, firstResult,
                   todo, engineVars>>

----------------------------------------------------------------------------
(* Planner runs: every world, every state passed to bfs_plan *)

WorldInit ==
    \/ /\ GRAPH = ShippedGRAPH
       /\ ITEM_START_POS = ShippedITEM_START_POS
    \/ /\ GRAPH \in SmallGraphs
       /\ ITEM_START_POS \in [Items -> SmallRooms]

(* The small worlds are closed under renaming the rooms, so there the dog *)
(* starts in room1; in the shipped world it starts anywhere.              *)
StartStates ==
    IF GRAPH = ShippedGRAPH
    THEN AllStates
    ELSE {st \in AllStates : st.dog_pos = ROOM1}

Init ==
    /\ WorldInit
    /\ start \in StartStates
    /\ s = start
    /\ pc = "call1"
    /\ q = <<>>
    /\ prev = <<>>
    /\ prev_action = <<>>
    /\ result = None
    /\ firstResult = None
    /\ todo = <<>>
    /\ found_now = <<>>
    /\ choice = "a"
    /\ msg = ""
    /\ printed = <<>>
    /\ arg = None
    /\ ap1 = None
    /\ ap2 = None
    /\ acts = None

Next ==
    \/ BfsInit
    \/ BfsExpand
    \/ BfsReturnPlan
    \/ BfsReturnNone
    \/ AutoSolve
    \/ ExecStep
    \/ ExecEnd

Spec == Init /\ [][Next]_vars

(* The program keeps running until it waits for input *)
FairSpec == Spec /\ WF_vars(Next)

(* Two calls of bfs_plan on the same state *)
NextTwice ==
    \/ BfsInit
    \/ BfsExpand
    \/ BfsReturnPlan
    \/ BfsReturnNone
    \/ SecondCall

SpecTwice == Init /\ [][NextTwice]_vars

----------------------------------------------------------------------------
(* Sessions: main() in every world, the dog starting in any room of the  *)
(* shipped world and in room1 of the small worlds                        *)

StartRooms == {st.dog_pos : st \in StartStates}

SessionInit ==
    /\ WorldInit
    /\ \E start_pos \in StartRooms, ord \in ItemOrders :
          s = initial_state(start_pos, ord)
    /\ start = s
    /\ pc = "prompt"
    /\ q = <<>>
    /\ prev = <<>>
    /\ prev_action = <<>>
    /\ result = None
    /\ firstResult = None
    /\ todo = <<>>
    /\ found_now = <<>>
    /\ choice = ""
    /\ msg = "Dog: " \o s.dog_pos
    /\ printed = <<>>
    /\ arg = None
    /\ ap1 = None
    /\ ap2 = None
    /\ acts = None

SessionNext ==
    \/ SessionWin
    \/ ReadQuit
    \/ ReadAuto
    \/ ReadNotANumber
    \/ ReadNoDecimal
    \/ ReadOutOfRange
    \/ ReadMove
    \/ BfsInit
    \/ BfsExpand
    \/ BfsReturnPlan
    \/ BfsReturnNone
    \/ AutoSolve
    \/ ExecStep
    \/ ExecEnd

SessionSpec == SessionInit /\ [][SessionNext]_vars

----------------------------------------------------------------------------
(* Calls of the state functions on every state of every world *)

CallAutoPickup ==
    /\ pc = "engine"
    /\ \E ord \in ItemOrders : ap1' = auto_pickup(arg, ord)
    /\ pc' = "picked"
    /\ UNCHANGED <<worldVars, start, bfsVars, result, firstResult, uiVars, arg, ap2, acts>>

CallAutoPickupAgain ==
    /\ pc = "picked"
    /\ \E ord \in ItemOrders : ap2' = auto_pickup(ap1[1], ord)
    /\ pc' = "picked twice"
    /\ UNCHANGED <<worldVars, start, bfsVars, result, firstResult, uiVars, arg, ap1, acts>>

CallPossibleActions ==
    /\ pc = "engine"
    /\ \E ord \in ItemOrders : acts' = possible_actions(arg, ord)
    /\ pc' = "expanded"
    /\ UNCHANGED <<worldVars, start, bfsVars, result, firstResult, uiVars, arg, ap1, ap2>>

EngineInit ==
    /\ WorldInit
    /\ arg \in AllStates
    /\ pc = "engine"
    /\ start = None
    /\ s = None
    /\ q = <<>>
    /\ prev = <<>>
    /\ prev_action = <<>>
    /\ result = None
    /\ firstResult = None
    /\ todo = <<>>
    /\ found_now = <<>>
    /\ choice = ""
    /\ msg = ""
    /\ printed = <<>>
    /\ ap1 = None
    /\ ap2 = None
    /\ acts = None

EngineNext ==
    \/ CallAutoPickup
    \/ CallAutoPickupAgain
    \/ CallPossibleActions

EngineSpec == EngineInit /\ [][EngineNext]_vars

----------------------------------------------------------------------------
(* Properties of the planner *)

Returned == pc \in {"returned1", "returned2"}

(* The states one legal move away from st *)
Successors(st) ==
    {possible_actions(st, ord)[k][2] :
        k \in 1..Len(GRAPH[st.dog_pos]), ord \in ItemOrders}

(* The states that at most n legal moves reach from st *)
RECURSIVE Within(_, _)
Within(st, n) ==
    IF n = 0 THEN {st}
    ELSE LET W == Within(st, n - 1)
         IN  W \cup UNION {Successors(x) : x \in W}

GoalWithin(st, n) == \E x \in Within(st, n) : is_goal(x)

GoalReachable(st) == GoalWithin(st, Cardinality(AllStates))

(* The least number of legal moves from st to a goal state *)
MinMoves(st) ==
    CHOOSE n \in 0..Cardinality(AllStates) :
        /\ GoalWithin(st, n)
        /\ \A m \in 0..(n - 1) : ~GoalWithin(st, m)

(* C1: whenever a goal state is reachable from the start state, bfs_plan   *)
(* returns a plan whose length is the least number of legal moves that     *)
(* lead from the start state to a state with no remaining items.           *)
C1_ShortestPlan ==
    (Returned /\ GoalReachable(start)) =>
        /\ result # None
        /\ Len(result.plan) = MinMoves(start)

(* C1 witness: a returned plan of three moves or more, in a world where a  *)
(* longer route to a goal exists as well (the dog can walk in a circle).   *)
C1_Witness ==
    /\ Returned
    /\ result # None
    /\ Len(result.plan) >= 3
    /\ \E x \in Within(start, 1) : x # start /\ start \in Within(x, 2)

(* C2: when bfs_plan returned a plan, executing it step by step, each step *)
(* matched against possible_actions of the current state, never fails with *)
(* "Plan step not applicable", and when all len(plan) steps are executed   *)
(* the state is a goal state.                                              *)
C2_PlanValid ==
    /\ pc # "RuntimeError"
    /\ pc = "exec" => Len(todo) <= Len(result.plan)
    /\ (pc = "exec" /\ todo = <<>>) => is_goal(s)
    /\ (pc = "prompt" /\ result # None) => is_goal(s)

(* C2 witness: a plan of two moves or more is executed to its end. *)
C2_Witness ==
    /\ pc = "exec"
    /\ todo = <<>>
    /\ Len(result.plan) >= 2
    /\ is_goal(s)

(* C3: bfs_plan returns None exactly when no goal state is reachable from  *)
(* the start state by legal moves.                                         *)
C3_NoneIffUnreachable ==
    Returned => ((result = None) <=> ~GoalReachable(start))

(* the rooms that the moves of the graph reach from room r *)
RECURSIVE RoomsWithin(_, _)
RoomsWithin(r, n) ==
    IF n = 0 THEN {r}
    ELSE LET W == RoomsWithin(r, n - 1)
         IN  W \cup UNION {Range(GRAPH[x]) : x \in W}

(* C3 witness: None is returned where the home of a remaining item is not  *)
(* reachable from the start room, although the dog can move.               *)
C3_Witness ==
    /\ Returned
    /\ result = None
    /\ GRAPH[start.dog_pos] # <<>>
    /\ \E it \in start.remaining_items :
          ITEM_START_POS[it] \notin RoomsWithin(start.dog_pos, Cardinality(Rooms))

(* C4: bfs_plan returns the empty plan exactly when the start state is a   *)
(* goal state, and the empty plan is another value than None.              *)
C4_EmptyPlanIffStartIsGoal ==
    /\ Some(<<>>) # None
    /\ Returned =>
          (is_goal(start) <=> (result # None /\ result.plan = <<>>))

(* C4 witness: the empty plan is returned for a start state that is a goal *)
C4_Witness ==
    /\ Returned
    /\ is_goal(start)
    /\ result = Some(<<>>)

(* C5: every call of bfs_plan returns, by dequeuing a goal state or by    *)
(* finding the queue empty, and prev never holds more than                *)
(* |rooms| * 2^|items| states.                                            *)
C5_Terminates ==
    /\ [](Cardinality(DOMAIN prev) <=
             Cardinality(Rooms) * 2 ^ Cardinality(DOMAIN ITEM_START_POS))
    /\ <>(pc = "returned1")
    /\ [][pc' = "returned1" =>
             (q = <<>> \/ is_goal(Head(q)))]_vars

(* C5 witness: bfs_plan returned in a world where the dog can walk in a   *)
(* circle, after recording four states or more.                           *)
C5_Witness ==
    /\ Returned
    /\ Cardinality(DOMAIN prev) >= 4
    /\ \E x \in Within(start, 1) : x # start /\ start \in Within(x, 2)

(* C6: a second call of bfs_plan on the same state in the same world     *)
(* returns the value the first call returned, whatever the iteration     *)
(* order of the item sets in either call.                                *)
C6_SameResultTwice ==
    pc = "returned2" => result = firstResult

(* C6 witness: both calls returned a plan where two different first moves *)
(* start a plan of the least length.                                      *)
C6_Witness ==
    /\ pc = "returned2"
    /\ result # None
    /\ Len(result.plan) >= 2
    /\ \E x, y \in Successors(start) :
          /\ x # y
          /\ GoalWithin(x, Len(result.plan) - 1)
          /\ GoalWithin(y, Len(result.plan) - 1)

----------------------------------------------------------------------------
(* Properties of the state functions *)

(* the items whose home is room *)
HomedAt(room) == {it \in DOMAIN ITEM_START_POS : ITEM_START_POS[it] = room}

(* C7: the remaining items of every state that possible_actions(arg)     *)
(* emits are a subset of the remaining items of arg.                     *)
C7_RemainingNeverGrows ==
    pc = "expanded" =>
        \A k \in 1..Len(acts) : acts[k][2].remaining_items \subseteq arg.remaining_items

(* C7 witness: a move that picks an item up and a move that picks none   *)
(* up, from a state in which an item was found before.                   *)
C7_Witness ==
    /\ pc = "expanded"
    /\ arg.remaining_items # DOMAIN ITEM_START_POS
    /\ \E k \in 1..Len(acts) : acts[k][2].remaining_items # arg.remaining_items
    /\ \E k \in 1..Len(acts) : acts[k][2].remaining_items = arg.remaining_items

(* C8: auto_pickup applied to the state that auto_pickup returned gives  *)
(* that state again and an empty list of found items.                    *)
C8_AutoPickupIdempotent ==
    pc = "picked twice" => (ap2[1] = ap1[1] /\ ap2[2] = <<>>)

(* C8 witness: the first auto_pickup picked up two items of one room. *)
C8_Witness ==
    /\ pc = "picked twice"
    /\ Len(ap1[2]) = 2
    /\ ap2[1] = ap1[1]

(* C9: auto_pickup(arg) returns a state in the room of arg whose         *)
(* remaining items are those of arg without the ones homed in that room, *)
(* and returns as found exactly the items removed, each once; with no    *)
(* remaining item homed in the room it returns arg and the empty list.   *)
C9_AutoPickupResult ==
    pc = "picked" =>
        LET removed == arg.remaining_items \cap HomedAt(arg.dog_pos)
        IN  /\ ap1[1].dog_pos = arg.dog_pos
            /\ ap1[1].remaining_items = arg.remaining_items \ HomedAt(arg.dog_pos)
            /\ Range(ap1[2]) = removed
            /\ Len(ap1[2]) = Cardinality(removed)
            /\ removed = {} => ap1 = <<arg, <<>>>>

(* C9 witness: one item of the room is picked up, the other item of the  *)
(* room was found before.                                                *)
C9_Witness ==
    /\ pc = "picked"
    /\ Len(ap1[2]) = 1
    /\ Cardinality(HomedAt(arg.dog_pos)) = 2

(* C10: possible_actions(arg) emits one pair per entry of the neighbour  *)
(* list of arg's room, in the order of the list: the k-th pair is the    *)
(* label "move <room of arg> -> <k-th neighbour>" and the state in the   *)
(* k-th neighbour whose remaining items are those of arg without the     *)
(* items homed there.                                                    *)
C10_PossibleActionsResult ==
    pc = "expanded" =>
        LET nbrs == GRAPH[arg.dog_pos]
        IN  /\ Len(acts) = Len(nbrs)
            /\ \A k \in 1..Len(nbrs) :
                  /\ acts[k][1] = "move " \o arg.dog_pos \o " -> " \o nbrs[k]
                  /\ acts[k][2].dog_pos = nbrs[k]
                  /\ acts[k][2].remaining_items =
                        arg.remaining_items \ HomedAt(nbrs[k])

(* C10 witness: three moves or more are emitted, one of them picks an    *)
(* item up, and arg's own room is not among the neighbours.              *)
C10_Witness ==
    /\ pc = "expanded"
    /\ Len(acts) >= 3
    /\ arg.dog_pos \notin Range(GRAPH[arg.dog_pos])
    /\ \E k \in 1..Len(acts) : acts[k][2].remaining_items # arg.remaining_items

----------------------------------------------------------------------------
(* Properties of the session *)

(* The start state has both items remaining, item A is homed in a         *)
(* neighbour of the start room and item B in a neighbour of A's room that *)
(* is no neighbour of the start room.                                     *)
TwoHopScenario(A, B) ==
    LET a == ITEM_START_POS[A]
        b == ITEM_START_POS[B]
    IN  /\ A # B
        /\ start.remaining_items = {A, B}
        /\ Cardinality({start.dog_pos, a, b}) = 3
        /\ a \in Range(GRAPH[start.dog_pos])
        /\ b \notin Range(GRAPH[start.dog_pos])
        /\ b \in Range(GRAPH[a])

(* C11: in that scenario bfs_plan returns exactly the two moves start ->  *)
(* A's room -> B's room, and executing the plan prints item A as found    *)
(* after the first step and item B as found after the second.             *)
C11_TwoHopScenario ==
    \A A, B \in DOMAIN ITEM_START_POS :
        TwoHopScenario(A, B) =>
            LET a == ITEM_START_POS[A]
                b == ITEM_START_POS[B]
            IN  /\ Returned =>
                      result = Some(<<"move " \o start.dog_pos \o " -> " \o a,
                                      "move " \o a \o " -> " \o b>>)
                /\ (pc = "exec" /\ Len(todo) = 1) =>
                      /\ found_now = <<A>>
                      /\ printed = <<FoundLine(A, a)>>
                /\ (pc = "exec" /\ todo = <<>>) =>
                      /\ found_now = <<B>>
                      /\ printed = <<FoundLine(A, a), FoundLine(B, b)>>

(* C11 witness: the plan of the scenario is executed to its end. *)
C11_Witness ==
    /\ \E A, B \in DOMAIN ITEM_START_POS : TwoHopScenario(A, B)
    /\ pc = "exec"
    /\ todo = <<>>
    /\ Len(printed) = 2

(* an input that is neither "q", "a" nor the number of an offered move *)
InvalidInput(st, c) ==
    /\ c \notin {"q", "a"}
    /\ \A ord \in ItemOrders :
          ~(IntParses(c) /\ 1 <= int(c) /\ int(c) <= Len(possible_actions(st, ord)))

(* the two lines that report an input that was not understood *)
InputReports == {"Please enter a number, 'a', or 'q'.", "Invalid choice."}

(* C12: every input that is neither "q", "a" nor a number from 1 to the   *)
(* number of offered moves is reported and followed by a new prompt, with *)
(* the session's state unchanged and the session neither ended nor        *)
(* aborted. The input U+00B2 passes isdigit() and makes int() raise.      *)
C12_InvalidInputHarmless ==
    [][(pc = "prompt" /\ ~is_goal(s) /\ InvalidInput(s, choice'))
          => (pc' = "prompt" /\ s' = s /\ msg' \in InputReports)]_vars

C12_Witness == pc = "ValueError" /\ choice = SUPERSCRIPT_TWO /\ ~is_goal(s)

(* the items named by a sequence of printed lines *)
Announced(lines) == {lines[i].item : i \in 1..Len(lines)}

(* the last k lines printed *)
LastLines(k) == SubSeq(printed, Len(printed) - k + 1, Len(printed))

(* while bfs_plan runs for the session, the session's state is the state *)
(* the plan was asked for; while the plan is executed, the lines printed *)
(* since the request name each item found since then once, and no line   *)
(* printed before names an item that was remaining at the request        *)
C13_Execution ==
    /\ pc \in {"call1", "loop1", "returned1"} => s = start
    /\ pc # "RuntimeError"
    /\ pc = "exec" =>
          LET done == start.remaining_items \ s.remaining_items
              k == Cardinality(done)
          IN  /\ s.remaining_items \subseteq start.remaining_items
              /\ k <= Len(printed)
              /\ Announced(LastLines(k)) = done
              /\ \A i \in 1..(Len(printed) - k) :
                    printed[i].item \notin start.remaining_items
              /\ todo = <<>> => done = start.remaining_items /\ is_goal(s)

(* a returned plan is executed from its first move on, a missing plan is *)
(* reported and leaves the session's state alone                         *)
C13_AfterPlanning ==
    pc = "returned1" =>
        /\ s' = s
        /\ printed' = printed
        /\ result = None => pc' = "prompt" /\ msg' = "No plan found."
        /\ result # None => pc' = "exec" /\ todo' = result.plan

(* one executed step of the plan: the move named by the step is made and *)
(* the items announced are the difference of the remaining items, which  *)
(* are the remaining items homed at the room moved to                    *)
C13_ExecutedStep ==
    (pc = "exec" /\ todo # <<>>) =>
        /\ pc' = "exec"
        /\ todo' = Tail(todo)
        /\ Head(todo) = MoveLabel(s.dog_pos, s'.dog_pos)
        /\ Range(found_now') = s.remaining_items \ s'.remaining_items
        /\ Range(found_now') = s.remaining_items \cap HomedAt(s'.dog_pos)
        /\ Len(found_now') = Cardinality(Range(found_now'))
        /\ Len(printed') = Len(printed) + Len(found_now')
        /\ SubSeq(printed', 1, Len(printed)) = printed
        /\ \A i \in 1..Len(found_now') :
              printed'[Len(printed) + i] = [item |-> found_now'[i], room |-> s'.dog_pos]

(* C13: auto-solve from the session's state s: a plan that exists is      *)
(* executed step by step, each step announces exactly the items that left *)
(* the remaining items at that step (those homed at the room moved to),   *)
(* over the execution every item remaining in s is announced exactly      *)
(* once, and the state after the execution is a goal state; without a     *)
(* plan "No plan found." is reported and the state is unchanged.          *)
C13_AutoSolveReporting ==
    /\ []C13_Execution
    /\ [][C13_AfterPlanning /\ C13_ExecutedStep]_vars
    /\ [][(pc = "exec" /\ todo = <<>>) => (pc' = "prompt" /\ s' = s /\ is_goal(s'))]_vars

(* one executed plan has announced both items, in two rooms *)
C13_Witness ==
    /\ pc = "exec"
    /\ todo = <<>>
    /\ start.remaining_items = {ITEM1, ITEM2}
    /\ Len(printed) = 2
    /\ choice = "a"
    /\ \E i \in 1..2 : printed[i].room # printed[3 - i].room

(* the number typed, when it is the number of an offered move of st *)
OfferedMove(st, c) ==
    /\ IntParses(c)
    /\ \A ord \in ItemOrders :
          1 <= int(c) /\ int(c) <= Len(possible_actions(st, ord))

(* C14: when the number i typed at the prompt is from 1 to the number of *)
(* offered moves, the session's new state is the resulting state of the  *)
(* i-th pair of possible_actions(s), as it is; the new room is the i-th  *)
(* neighbour of the old room, the prompt comes again, and the world, the *)
(* last plan and the planner's data are left as they were.               *)
C14_MoveByIndex ==
    [][(pc = "prompt" /\ ~is_goal(s) /\ OfferedMove(s, choice'))
          => LET i == int(choice')
             IN  /\ \A ord \in ItemOrders : s' = possible_actions(s, ord)[i][2]
                 /\ i <= Len(GRAPH[s.dog_pos])
                 /\ s'.dog_pos = GRAPH[s.dog_pos][i]
                 /\ s'.remaining_items = s.remaining_items \ HomedAt(GRAPH[s.dog_pos][i])
                 /\ pc' = "prompt"
                 /\ UNCHANGED <<worldVars, start, bfsVars, result, todo>>]_vars

(* the second offered move was chosen and an item was found by it *)
C14_Witness ==
    /\ pc = "prompt"
    /\ choice = "2"
    /\ msg = "Dog: " \o s.dog_pos
    /\ found_now # <<>>
    /\ \E r \in DOMAIN GRAPH : Len(GRAPH[r]) >= 2 /\ GRAPH[r][2] = s.dog_pos /\ GRAPH[r][1] # s.dog_pos

----------------------------------------------------------------------------
(* Worlds as they can be written into lines 20-33: nothing in the module *)
(* compares the neighbours or the item homes with the keys of GRAPH      *)

(* the small graphs with some of the rooms left out of the keys *)
OpenGraphs ==
    {[r \in K |-> g[r]] :
        g \in SmallGraphs, K \in {K \in SUBSET SmallRooms : ROOM1 \in K}}

OpenWorldInit ==
    /\ GRAPH \in OpenGraphs
    /\ ITEM_START_POS \in [Items -> SmallRooms]

OpenInit ==
    /\ OpenWorldInit
    /\ start \in {st \in AllStates : st.dog_pos = ROOM1}
    /\ s = start
    /\ pc = "call1"
    /\ q = <<>>
    /\ prev = <<>>
    /\ prev_action = <<>>
    /\ result = None
    /\ firstResult = None
    /\ todo = <<>>
    /\ found_now = <<>>
    /\ choice = "a"
    /\ msg = ""
    /\ printed = <<>>
    /\ arg = None
    /\ ap1 = None
    /\ ap2 = None
    /\ acts = None

OpenNext ==
    \/ BfsInit
    \/ BfsExpand
    \/ BfsReturnPlan
    \/ BfsReturnNone

OpenSpec == OpenInit /\ [][OpenNext]_vars

(* every neighbour and every item home is a key of GRAPH *)
ClosedWorld ==
    /\ \A r \in DOMAIN GRAPH : Range(GRAPH[r]) \subseteq DOMAIN GRAPH
    /\ \A it \in DOMAIN ITEM_START_POS : ITEM_START_POS[it] \in DOMAIN GRAPH

(* C15: a world in which a neighbour or an item home is no key of GRAPH  *)
(* is rejected when it is constructed: no step of bfs_plan runs in it,   *)
(* and no search ends in the failure of an unknown room.                 *)
C15_RejectedAtConstruction ==
    /\ ~ClosedWorld => pc = "call1"
    /\ pc # "KeyError"

(* the search has recorded more than the start state and has then failed *)
(* on a room that is no key of GRAPH                                     *)
C15_Witness ==
    /\ ~ClosedWorld
    /\ pc = "KeyError"
    /\ Cardinality(DOMAIN prev) > 1
    /\ \E st \in DOMAIN prev : st.dog_pos \notin DOMAIN GRAPH

(* a state of the configured world *)
WellFormed(st) ==
    /\ st.dog_pos \in DOMAIN GRAPH
    /\ st.remaining_items \subseteq DOMAIN ITEM_START_POS

(* C16: in a world whose neighbours and item homes are all keys of GRAPH, *)
(* the session's state, reached from initial_state(start) by any moves,   *)
(* and every state the planner has recorded or queued, has a room that is *)
(* a key of GRAPH and remaining items that are items of ITEM_START_POS.   *)
C16_StatesWellFormed ==
    ClosedWorld =>
        /\ WellFormed(s)
        /\ \A st \in DOMAIN prev :
              /\ WellFormed(st)
              /\ prev[st] # None => WellFormed(prev[st])
        /\ \A i \in 1..Len(q) : WellFormed(q[i])
        /\ pc # "KeyError"

(* the planner has recorded three states for a session that has moved *)
C16_Witness ==
    /\ ClosedWorld
    /\ pc = "loop1"
    /\ Cardinality(DOMAIN prev) >= 3
    /\ Len(q) >= 2
    /\ s.dog_pos # ROOM1
    /\ s.remaining_items # {}

(* the states met by following the prev links from st, st first, for at *)
(* most fuel links                                                      *)
RECURSIVE Links(_, _)
Links(st, fuel) ==
    IF prev[st] = None \/ fuel = 0 THEN <<st>>
    ELSE <<st>> \o Links(prev[st], fuel - 1)

(* the least number of legal moves that lead from the start state to st *)
Distance(st) ==
    CHOOSE n \in 0..Cardinality(AllStates) :
        /\ st \in Within(start, n)
        /\ \A m \in 0..(n - 1) : st \notin Within(start, m)

NoRepeats(sq) == \A i, j \in 1..Len(sq) : sq[i] = sq[j] => i = j

C17_Bookkeeping ==
    pc \in {"loop1", "loop2", "returned1", "returned2"} =>
        /\ NoRepeats(q)
        /\ Range(q) \subseteq DOMAIN prev
        /\ DOMAIN prev_action = DOMAIN prev
        /\ start \in DOMAIN prev
        /\ \A st \in DOMAIN prev :
              LET chain == Links(st, Cardinality(DOMAIN prev))
              IN  /\ prev[st] = None <=> st = start
                  /\ IF st = start
                     THEN prev_action[st] = None
                     ELSE prev_action[st] = MoveLabel(prev[st].dog_pos, st.dog_pos)
                  /\ prev[st] # None => prev[st] \in DOMAIN prev
                  /\ chain[Len(chain)] = start
                  /\ NoRepeats(chain)
                  /\ Len(chain) - 1 = Distance(st)

(* one iteration of the loop: the states put into the queue are the ones *)
(* that get an entry, each once, and no entry that exists is changed     *)
C17_Expansion ==
    (pc \in {"loop1", "loop2"} /\ pc' = pc) =>
        \E new \in Orders(DOMAIN prev' \ DOMAIN prev) :
            /\ q' = Tail(q) \o new
            /\ DOMAIN prev \subseteq DOMAIN prev'
            /\ \A st \in DOMAIN prev :
                  prev'[st] = prev[st] /\ prev_action'[st] = prev_action[st]
            /\ \A st \in Range(new) : prev'[st] = Head(q)

(* C17: during a call of bfs_plan a state is put into the queue at most  *)
(* once, its entry in prev and prev_action is written once and not       *)
(* changed, every queued state has an entry, and the prev links of every *)
(* recorded state lead to the start state, the only one without a        *)
(* predecessor, without meeting a state twice, in as many links as the   *)
(* least number of moves from the start state to it.                     *)
C17_FirstDiscoveryWins ==
    /\ []C17_Bookkeeping
    /\ [][C17_Expansion]_vars

(* a state two links from the start is recorded while another state, met *)
(* again by a later move, waits in the queue                             *)
C17_Witness ==
    /\ pc = "loop1"
    /\ q # <<>>
    /\ \E st \in DOMAIN prev : Len(Links(st, Cardinality(DOMAIN prev))) = 3
    /\ \E st \in DOMAIN prev :
          Cardinality({x \in DOMAIN prev : st \in Successors(x)}) >= 2

(* no remaining item of st has its home where the dog is *)
NothingLeftHere(st) == st.remaining_items \cap HomedAt(st.dog_pos) = {}

(* C18: initial_state(start) has as remaining items all items but those   *)
(* homed at start, and neither in that state nor in any state reached     *)
(* from it by moves is a remaining item homed at the room the dog is in.  *)
C18_NoItemLeftAtDog ==
    /\ \A r \in DOMAIN GRAPH, ord \in ItemOrders :
          initial_state(r, ord) = State(r, DOMAIN ITEM_START_POS \ HomedAt(r))
    /\ NothingLeftHere(s)
    /\ \A st \in DOMAIN prev : NothingLeftHere(st)

(* the dog has moved into the room of an item and found it; the other   *)
(* item, homed elsewhere and never announced, was taken by initial_state *)
C18_Witness ==
    /\ pc = "prompt"
    /\ Len(printed) = 1
    /\ printed[1].room = s.dog_pos
    /\ choice \in Range(DecimalDigits)
    /\ s.remaining_items = {}
    /\ \E it \in DOMAIN ITEM_START_POS :
          ITEM_START_POS[it] # s.dog_pos /\ it # printed[1].item

(* the shipped world and the start state of main() *)
ShippedRun ==
    /\ GRAPH = ShippedGRAPH
    /\ ITEM_START_POS = ShippedITEM_START_POS
    /\ \E ord \in ItemOrders : start = initial_state(ROOM1, ord)

ShippedPlan ==
    <<"move room1 -> room2", "move room2 -> room3",
      "move room3 -> room4", "move room4 -> room5">>

(* C19: in the shipped world, from initial_state(room1), bfs_plan returns *)
(* the plan room1 -> room2 -> room3 -> room4 -> room5 of four moves; its  *)
(* execution finds item1 at step 1 and item2 at step 4, and no plan of    *)
(* fewer than four moves reaches a goal state.                            *)
C19_ShippedPlan ==
    ShippedRun =>
        /\ Returned => result = Some(ShippedPlan)
        /\ ~GoalWithin(start, 3)
        /\ GoalWithin(start, 4)
        /\ pc = "exec" =>
              /\ Len(todo) = 4 => printed = <<>>
              /\ Len(todo) \in 1..3 => printed = <<FoundLine(ITEM1, ROOM2)>>
              /\ Len(todo) = 3 => s = State(ROOM2, {ITEM2})
              /\ Len(todo) = 0 =>
                    /\ printed = <<FoundLine(ITEM1, ROOM2), FoundLine(ITEM2, ROOM5)>>
                    /\ s = State(ROOM5, {})

C19_Witness ==
    /\ ShippedRun
    /\ pc = "exec"
    /\ todo = <<>>
    /\ Len(printed) = 2
    /\ result # None

(* what holds in every state of a session: no item is announced twice,   *)
(* and a goal state is met only at the prompt, at the end of an executed *)
(* plan, or after the end of the session                                 *)
C20_Announcements ==
    /\ \A i, j \in 1..Len(printed) : printed[i].item = printed[j].item => i = j
    /\ is_goal(s) =>
          \/ pc \in {"prompt", "ended"}
          \/ pc = "exec" /\ todo = <<>>

(* what holds of every step of a session *)
C20_Stopping ==
    /\ s'.remaining_items \subseteq s.remaining_items
    /\ is_goal(s) =>
          /\ s' = s
          /\ choice' = choice
          /\ printed' = printed
          /\ pc = "prompt" => pc' = "ended" /\ msg' = "You win!"
    /\ (pc = "prompt" /\ choice' = "q" /\ ~is_goal(s)) =>
          pc' = "ended" /\ s' = s /\ msg' = "Quit."
    /\ pc # "ended"

(* C20: whatever is typed, every item is announced at most once in the   *)
(* session, the remaining items never grow, a session whose state is a   *)
(* goal state ends at once, with no move offered, read or applied, and   *)
(* "q" ends the session with the state unchanged.                        *)
C20_SessionAnnouncesOnceAndStops ==
    /\ []C20_Announcements
    /\ [][C20_Stopping]_vars

(* the session was won by a typed move, the items were announced in two *)
(* rooms                                                                *)
C20_Witness ==
    /\ pc = "ended"
    /\ msg = "You win!"
    /\ choice \in Range(DecimalDigits)
    /\ Len(printed) = 2
    /\ printed[1].room # printed[2].room
    /\ is_goal(s)

====
